---- MODULE Spec2Model ----
(***************************************************************************)
(* Model of CFRBot.py: the info-set table (cfr_nodes, CFRNode), the toy    *)
(* decision tree of build_subtree, the CFR recursion cfr_tree, and the     *)
(* action sampler of TreeCFRPlayer.                                        *)
(*                                                                         *)
(* Python floats are modelled as fixed-point numbers: the integer x stands *)
(* for the value x / Prec, and every multiplication and division rounds    *)
(* its exact result to the nearest representable value, as IEEE            *)
(* arithmetic does on its own grid.  Additions of grid values are exact.   *)
(***************************************************************************)
EXTENDS Integers, Sequences, FiniteSets, TLC

\* ------------------------------------------------------------------------
\* Bounds of the model
\* ------------------------------------------------------------------------
Prec == 1200
EarlyIter == 10
LateIter == 200
MaxIter == LateIter

\* ------------------------------------------------------------------------
\* Float arithmetic
\* ------------------------------------------------------------------------
Num(k) == k * Prec

Round(n, d) == (2 * n + d) \div (2 * d)

Mul(a, b) == Round(a * b, Prec)

Div(a, b) == Round(a * Prec, b)

Max(a, b) == IF a >= b THEN a ELSE b

\* the literal 1e-9 of the guards; it lies strictly between two grid values
EpsDen == 1000000000

GtEpsilon(x) == x > Prec \div EpsDen

LtEpsilon(x) == x < (Prec + EpsDen - 1) \div EpsDen

\* ------------------------------------------------------------------------
\* defaultdict(float)
\* ------------------------------------------------------------------------
EmptyDict == [a \in {} |-> 0]

DictGet(d, a) == IF a \in DOMAIN d THEN d[a] ELSE 0

DictPut(d, a, v) == [x \in (DOMAIN d) \cup {a} |-> IF x = a THEN v ELSE d[x]]

\* reading d[a] of a defaultdict inserts the missing key with 0.0
DictTouch(d, keys) == [x \in (DOMAIN d) \cup keys |-> DictGet(d, x)]

Range(s) == {s[i] : i \in 1..Len(s)}

RECURSIVE SumValues(_)
SumValues(d) ==
  IF DOMAIN d = {} THEN 0
  ELSE LET a == CHOOSE x \in DOMAIN d : TRUE
       IN d[a] + SumValues([x \in (DOMAIN d) \ {a} |-> d[x]])

\* ------------------------------------------------------------------------
\* CFRNode
\* ------------------------------------------------------------------------
CFRNode(info_key, actions) ==
  [info_key |-> info_key, actions |-> actions,
   regret_sums |-> EmptyDict, strategy_sums |-> EmptyDict]

RECURSIVE AddStrategy(_, _, _, _, _)
AddStrategy(sums, strategy, actions, w, i) ==
  IF i > Len(actions) THEN sums
  ELSE LET a == actions[i]
       IN AddStrategy(DictPut(sums, a, DictGet(sums, a) + Mul(strategy[a], w)),
                      strategy, actions, w, i + 1)

\* get_strategy without the max(0.0, .) of positive_regrets
get_strategy_unclipped(node, realization_weight) ==
  LET acts == Range(node.actions)
      regs == DictTouch(node.regret_sums, acts)
      positive_regrets == [a \in acts |-> regs[a]]
      sum_reg == SumValues(positive_regrets)
      strategy == IF GtEpsilon(sum_reg)
                  THEN [a \in acts |-> Div(positive_regrets[a], sum_reg)]
                  ELSE [a \in acts |-> Div(Num(1), Num(Len(node.actions)))]
  IN [strategy |-> strategy,
      node |-> [node EXCEPT !.regret_sums = regs,
                            !.strategy_sums =
                               AddStrategy(node.strategy_sums, strategy,
                                           node.actions, realization_weight, 1)]]

\* get_strategy matching on strategy_sums instead of regret_sums
get_strategy_wrong_dict(node, realization_weight) ==
  LET acts == Range(node.actions)
      regs == DictTouch(node.regret_sums, acts)
      positive_regrets == [a \in acts |-> Max(0, DictGet(node.strategy_sums, a))]
      sum_reg == SumValues(positive_regrets)
      strategy == IF GtEpsilon(sum_reg)
                  THEN [a \in acts |-> Div(positive_regrets[a], sum_reg)]
                  ELSE [a \in acts |-> Div(Num(1), Num(Len(node.actions)))]
  IN [strategy |-> strategy,
      node |-> [node EXCEPT !.regret_sums = regs,
                            !.strategy_sums =
                               AddStrategy(node.strategy_sums, strategy,
                                           node.actions, realization_weight, 1)]]

get_strategy(node, realization_weight) ==
  LET acts == Range(node.actions)
      regs == DictTouch(node.regret_sums, acts)
      positive_regrets == [a \in acts |-> Max(0, regs[a])]
      sum_reg == SumValues(positive_regrets)
      strategy == IF GtEpsilon(sum_reg)
                  THEN [a \in acts |-> Div(positive_regrets[a], sum_reg)]
                  ELSE [a \in acts |-> Div(Num(1), Num(Len(node.actions)))]
  IN [strategy |-> strategy,
      node |-> [node EXCEPT !.regret_sums = regs,
                            !.strategy_sums =
                               AddStrategy(node.strategy_sums, strategy,
                                           node.actions, realization_weight, 1)]]

\* get_average_strategy with the guard inverted
get_average_strategy_inverted(node) ==
  LET total == SumValues(node.strategy_sums)
      acts == Range(node.actions)
  IN IF ~LtEpsilon(total)
     THEN [strategy |-> [a \in acts |-> Div(Num(1), Num(Len(node.actions)))],
           node |-> node]
     ELSE [strategy |-> [a \in acts |-> 0], node |-> node]

\* get_average_strategy normalizing strategy_sums in place
get_average_strategy_in_place(node) ==
  LET total == SumValues(node.strategy_sums)
      acts == Range(node.actions)
      sums == DictTouch(node.strategy_sums, acts)
      avg == [a \in DOMAIN sums |-> Div(sums[a], total)]
  IN IF LtEpsilon(total)
     THEN [strategy |-> [a \in acts |-> Div(Num(1), Num(Len(node.actions)))],
           node |-> node]
     ELSE [strategy |-> [a \in acts |-> avg[a]],
           node |-> [node EXCEPT !.strategy_sums = avg]]

\* the strategy returned, and the record as the reads of strategy_sums[a]
\* leave it
get_average_strategy(node) ==
  LET total == SumValues(node.strategy_sums)
      acts == Range(node.actions)
      sums == DictTouch(node.strategy_sums, acts)
  IN IF LtEpsilon(total)
     THEN [strategy |-> [a \in acts |-> Div(Num(1), Num(Len(node.actions)))],
           node |-> node]
     ELSE [strategy |-> [a \in acts |-> Div(sums[a], total)],
           node |-> [node EXCEPT !.strategy_sums = sums]]

\* ------------------------------------------------------------------------
\* cfr_nodes
\* ------------------------------------------------------------------------
\* get_or_create_cfr_node making a new record at every call
get_or_create_cfr_node_overwrite(tbl, info_key, actions) ==
  [k \in (DOMAIN tbl) \cup {info_key} |->
     IF k = info_key THEN CFRNode(info_key, actions) ELSE tbl[k]]

get_or_create_cfr_node(tbl, info_key, actions) ==
  IF info_key \notin DOMAIN tbl
  THEN [k \in (DOMAIN tbl) \cup {info_key} |->
          IF k = info_key THEN CFRNode(info_key, actions) ELSE tbl[k]]
  ELSE tbl

\* ------------------------------------------------------------------------
\* TreeNode and build_subtree
\* ------------------------------------------------------------------------
None == <<>>

TreeNode(current_player, info_key, children, terminal_payoff) ==
  [current_player |-> current_player, info_key |-> info_key,
   children |-> children, terminal_payoff |-> terminal_payoff]

is_terminal(node) == node.terminal_payoff # None

\* children is an insertion-ordered dict: a sequence of <<action, child>>
Keys(children) == [i \in 1..Len(children) |-> children[i][1]]

Child(children, a) ==
  children[CHOOSE i \in 1..Len(children) : children[i][1] = a][2]

\* a two-element payoff list [0, 0] with the entries of the two seats set
Payoff(player_view, mine, theirs) ==
  [i \in 1..2 |-> IF i = player_view + 1 THEN Num(mine) ELSE Num(theirs)]

Ord(c) ==
  CASE c = "C" -> 67 [] c = "D" -> 68 [] c = "H" -> 72 [] c = "S" -> 83

RECURSIVE Insert(_, _)
Insert(sorted, c) ==
  IF sorted = <<>> THEN <<c>>
  ELSE IF Ord(c) < Ord(Head(sorted)) THEN <<c>> \o sorted
  ELSE <<Head(sorted)>> \o Insert(Tail(sorted), c)

RECURSIVE Sorted(_)
Sorted(s) == IF s = <<>> THEN <<>> ELSE Insert(Sorted(Tail(s)), Head(s))

RECURSIVE Join(_)
Join(s) ==
  IF Len(s) <= 1 THEN s ELSE <<Head(s), "-">> \o Join(Tail(s))

\* c[0] of a card string such as "SA"
FirstChars(cards) == [i \in 1..Len(cards) |-> cards[i][1]]

RootKey(known_hole_cards, known_board, pot_size) ==
  <<Join(Sorted(FirstChars(known_hole_cards))), Join(FirstChars(known_board)),
    pot_size>>

OppKey(pot_size) == <<"opp_turn", pot_size>>

\* build_subtree with "raise" leading to an opponent node of its own
build_subtree_split(player_view, known_hole_cards, known_board, pot_size) ==
  LET fold_child == TreeNode(None, None, <<>>, Payoff(player_view, -10, 0))
      opp_view == 1 - player_view
      fold_opp_child == TreeNode(None, None, <<>>, Payoff(player_view, 25, 0))
      call_opp_child == TreeNode(None, None, <<>>, Payoff(player_view, 5, -5))
      raise_opp_child == TreeNode(None, None, <<>>, Payoff(player_view, -15, 15))
      kids == << <<"fold_opp", fold_opp_child>>,
                 <<"call_opp", call_opp_child>>,
                 <<"raise_opp", raise_opp_child>> >>
      opp_node == TreeNode(opp_view, OppKey(pot_size), kids, None)
      opp_node2 == TreeNode(opp_view, <<"opp_turn_raise", pot_size>>, kids, None)
  IN TreeNode(player_view, RootKey(known_hole_cards, known_board, pot_size),
              << <<"fold", fold_child>>, <<"call", opp_node>>,
                 <<"raise", opp_node2>> >>, None)

build_subtree(player_view, known_hole_cards, known_board, pot_size) ==
  LET fold_child == TreeNode(None, None, <<>>, Payoff(player_view, -10, 0))
      opp_view == 1 - player_view
      fold_opp_child == TreeNode(None, None, <<>>, Payoff(player_view, 25, 0))
      call_opp_child == TreeNode(None, None, <<>>, Payoff(player_view, 5, -5))
      raise_opp_child == TreeNode(None, None, <<>>, Payoff(player_view, -15, 15))
      opp_node == TreeNode(opp_view, OppKey(pot_size),
                           << <<"fold_opp", fold_opp_child>>,
                              <<"call_opp", call_opp_child>>,
                              <<"raise_opp", raise_opp_child>> >>, None)
  IN TreeNode(player_view, RootKey(known_hole_cards, known_board, pot_size),
              << <<"fold", fold_child>>, <<"call", opp_node>>,
                 <<"raise", opp_node>> >>, None)

\* ------------------------------------------------------------------------
\* cfr_tree
\* ------------------------------------------------------------------------
\* The result of a call: the payoff it returns (util), the table it leaves
\* (tbl), whether it raised KeyError (raised), the action_utils of this
\* call, and the record updates it made, in order (trace).  An update is
\* logged with the key of the record, the list of actions leading from the
\* root to the node visited (path), the weight reach_probs[cp], the
\* strategy of the visit and the record's regret_sums after the update.
RegretUpdate(node, actions, action_utils, cp, cp_util, w, i) ==
  LET a == actions[i]
      r == action_utils[a][cp + 1] - cp_util
  IN [node EXCEPT !.regret_sums =
        DictPut(node.regret_sums, a, DictGet(node.regret_sums, a) + Mul(r, w))]

RECURSIVE RegretLoop(_, _, _, _, _, _, _)
RegretLoop(node, actions, action_utils, cp, cp_util, w, i) ==
  IF i > Len(actions) THEN node
  ELSE RegretLoop(RegretUpdate(node, actions, action_utils, cp, cp_util, w, i),
                  actions, action_utils, cp, cp_util, w, i + 1)

RECURSIVE cfr_tree(_, _, _, _)
RECURSIVE ChildLoop(_, _, _, _, _, _)

\* the loop "for a in actions" over the children, from the i-th action on
ChildLoop(node, reach_probs, strategy, path, acc, i) ==
  LET actions == Keys(node.children)
      cp == node.current_player
  IN IF i > Len(actions) \/ acc.raised THEN acc
     ELSE LET a == actions[i]
          IN IF a \notin DOMAIN strategy
             THEN [acc EXCEPT !.raised = TRUE]
             ELSE LET next_reach == [reach_probs EXCEPT
                                       ![cp + 1] = Mul(@, strategy[a])]
                      sub == cfr_tree(Child(node.children, a), next_reach,
                                      acc.tbl, Append(path, a))
                      next == [tbl |-> sub.tbl,
                               raised |-> FALSE,
                               trace |-> acc.trace \o sub.trace,
                               action_utils |->
                                 DictPut(acc.action_utils, a, sub.util),
                               node_util |->
                                 [p \in 1..2 |-> acc.node_util[p]
                                    + Mul(strategy[a], sub.util[p])]]
                  IN IF sub.raised
                     THEN [acc EXCEPT !.tbl = sub.tbl, !.raised = TRUE,
                                      !.trace = acc.trace \o sub.trace]
                     ELSE ChildLoop(node, reach_probs, strategy, path, next,
                                    i + 1)

cfr_tree(node, reach_probs, tbl, path) ==
  IF is_terminal(node)
  THEN [util |-> node.terminal_payoff, tbl |-> tbl, raised |-> FALSE,
        trace |-> <<>>, action_utils |-> EmptyDict]
  ELSE LET cp == node.current_player
           info_key == node.info_key
           actions == Keys(node.children)
           tbl1 == get_or_create_cfr_node(tbl, info_key, actions)
           gs == get_strategy(tbl1[info_key], reach_probs[cp + 1])
           tbl2 == [tbl1 EXCEPT ![info_key] = gs.node]
           ev1 == [op |-> "get_strategy", key |-> info_key, path |-> path,
                   w |-> reach_probs[cp + 1], strategy |-> gs.strategy,
                   regret_sums |-> gs.node.regret_sums]
           loop == ChildLoop(node, reach_probs, gs.strategy, path,
                             [tbl |-> tbl2, raised |-> FALSE, trace |-> <<ev1>>,
                              action_utils |-> EmptyDict,
                              node_util |-> <<0, 0>>], 1)
           cp_util == loop.node_util[cp + 1]
           updated == RegretLoop(loop.tbl[info_key], actions, loop.action_utils,
                                 cp, cp_util, reach_probs[cp + 1], 1)
           ev2 == [op |-> "regret", key |-> info_key, path |-> path,
                   w |-> reach_probs[cp + 1], strategy |-> gs.strategy,
                   regret_sums |-> updated.regret_sums]
       IN IF loop.raised
          THEN [util |-> None, tbl |-> loop.tbl, raised |-> TRUE,
                trace |-> loop.trace, action_utils |-> loop.action_utils]
          ELSE [util |-> loop.node_util,
                tbl |-> [loop.tbl EXCEPT ![info_key] = updated],
                raised |-> FALSE,
                trace |-> Append(loop.trace, ev2),
                action_utils |-> loop.action_utils]

\* one pass of the loop of train_cfr_on_subtree
TrainPass(root_node, tbl) == cfr_tree(root_node, <<Num(1), Num(1)>>, tbl, <<>>)

\* ------------------------------------------------------------------------
\* TreeCFRPlayer
\* ------------------------------------------------------------------------
\* va["amount"] is a number or a dict {"min": .., "max": ..}
Amount(n) == [value |-> n]

MinMax(lo, hi) == [min |-> lo, max |-> hi]

IsDict(amount) == "min" \in DOMAIN amount

Entry(action, amount) == [action |-> action, amount |-> amount]

\* the return value of _convert_to_action_amount with the entry it converts
Chosen(va, pair, path) == [va |-> va, action |-> pair, path |-> path]

_convert_to_action_amount_max(va) ==
  LET act_type == va.action
  IN IF act_type = "fold" THEN <<"fold", 0>>
     ELSE IF act_type \in {"call", "check"}
       THEN IF IsDict(va.amount) THEN <<"call", 0>>
            ELSE <<"call", va.amount.value>>
     ELSE IF act_type = "raise" THEN <<"raise", va.amount.max>>
     ELSE <<"fold", 0>>

_convert_to_action_amount(va) ==
  LET act_type == va.action
  IN IF act_type = "fold" THEN <<"fold", 0>>
     ELSE IF act_type \in {"call", "check"}
       THEN IF IsDict(va.amount) THEN <<"call", 0>>
            ELSE <<"call", va.amount.value>>
     ELSE IF act_type = "raise" THEN <<"raise", va.amount.min>>
     ELSE <<"fold", 0>>

\* the first loop: filtered_strat and sum_prob after the first i entries
RECURSIVE Filter(_, _, _)
Filter(valid_actions, strategy, i) ==
  IF i = 0 THEN [filtered_strat |-> EmptyDict, sum_prob |-> 0]
  ELSE LET prev == Filter(valid_actions, strategy, i - 1)
           act_type == valid_actions[i].action
           put(k, prob) == [filtered_strat |-> DictPut(prev.filtered_strat, k, prob),
                            sum_prob |-> prev.sum_prob + prob]
       IN IF act_type \in {"call", "check"}
          THEN put(act_type, DictGet(strategy, "call"))
          ELSE IF act_type = "raise" THEN put("raise", DictGet(strategy, "raise"))
          ELSE IF act_type = "fold" THEN put("fold", DictGet(strategy, "fold"))
          ELSE prev

\* the second loop, from the i-th entry on
RECURSIVE Walk(_, _, _, _, _)
Walk(valid_actions, filtered_strat, r, cumulative, i) ==
  IF i > Len(valid_actions)
  THEN Chosen(valid_actions[Len(valid_actions)],
              _convert_to_action_amount(valid_actions[Len(valid_actions)]),
              "residual")
  ELSE LET va == valid_actions[i]
           act_type == va.action
           prob == IF act_type \in {"call", "check"}
                   THEN DictGet(filtered_strat, "call")
                   ELSE IF act_type = "raise"
                   THEN DictGet(filtered_strat, "raise")
                   ELSE DictGet(filtered_strat, "fold")
       IN IF r < cumulative + prob
          THEN Chosen(va, _convert_to_action_amount(va), "walk")
          ELSE Walk(valid_actions, filtered_strat, r, cumulative + prob, i + 1)

\* a sampler that draws the category from the strategy without filtering it
\* against the legal entries
_map_strategy_to_action_unfiltered(valid_actions, strategy, r, pick) ==
  LET cat == IF r < DictGet(strategy, "fold") THEN "fold"
             ELSE IF r < DictGet(strategy, "fold") + DictGet(strategy, "call")
             THEN "call"
             ELSE "raise"
      legal == {i \in 1..Len(valid_actions) : valid_actions[i].action = cat}
  IN IF legal # {}
     THEN LET va == valid_actions[CHOOSE i \in legal : TRUE]
          IN Chosen(va, _convert_to_action_amount(va), "walk")
     ELSE Chosen(valid_actions[pick], <<cat, 0>>, "walk")

\* r is the value of random.random(), pick the index random.choice draws
_map_strategy_to_action(valid_actions, strategy, r, pick) ==
  LET f == Filter(valid_actions, strategy, Len(valid_actions))
  IN IF LtEpsilon(f.sum_prob)
     THEN Chosen(valid_actions[pick],
                 _convert_to_action_amount(valid_actions[pick]), "fallback")
     ELSE Walk(valid_actions,
               [k \in DOMAIN f.filtered_strat |->
                  Div(f.filtered_strat[k], f.sum_prob)],
               r, 0, 1)

\* what train_cfr_on_subtree leaves when it makes no pass
NoPass(tbl) ==
  [util |-> None, tbl |-> tbl, raised |-> FALSE, trace |-> <<>>,
   action_utils |-> EmptyDict]

\* the loop of train_cfr_on_subtree: the result of its last pass; a KeyError
\* ends it.  The passes run one after the other; the loop is split in two
\* halves to keep the evaluation shallow.
RECURSIVE train_cfr_on_subtree(_, _, _)
train_cfr_on_subtree(root, iterations, tbl) ==
  IF iterations = 0 THEN NoPass(tbl)
  ELSE IF iterations = 1 THEN TrainPass(root, tbl)
  ELSE CHOOSE last \in
         {IF first.raised THEN first
          ELSE train_cfr_on_subtree(root, iterations - iterations \div 2,
                                    first.tbl) :
            first \in {train_cfr_on_subtree(root, iterations \div 2, tbl)}} :
         TRUE

\* the seat whose uuid is the player's, 0 when there is none
RECURSIVE PlayerView(_, _, _)
PlayerView(seats, uuid, i) ==
  IF i > Len(seats) THEN 0
  ELSE IF seats[i] = uuid THEN i - 1
  ELSE PlayerView(seats, uuid, i + 1)

\* iterations=50 of declare_action
TrainIters == 50

\* strategy of declare_action when the root key is not in cfr_nodes
DefaultStrategy ==
  [a \in {"fold", "call", "raise"} |->
     IF a = "call" THEN Round(34 * Prec, 100) ELSE Round(33 * Prec, 100)]

\* declare_action up to the strategy it reads: the tree, the training and
\* the root's average strategy
Solve(player, tbl, hole_cards, round_state) ==
  LET pot_size == round_state.pot
      community_cards == round_state.community_card
      player_view == PlayerView(round_state.seats, player.uuid, 1)
      root == build_subtree(player_view, hole_cards, community_cards, pot_size)
      root_info_key == RootKey(hole_cards, community_cards, pot_size)
      read(trained) ==
        IF trained.raised
        THEN [root |-> root, tbl |-> trained.tbl, raised |-> TRUE,
              trace |-> trained.trace, action_utils |-> trained.action_utils,
              strategy |-> None]
        ELSE IF root_info_key \notin DOMAIN trained.tbl
        THEN [root |-> root, tbl |-> trained.tbl, raised |-> FALSE,
              trace |-> trained.trace, action_utils |-> trained.action_utils,
              strategy |-> DefaultStrategy]
        ELSE LET avg == get_average_strategy(trained.tbl[root_info_key])
             IN [root |-> root,
                 tbl |-> [trained.tbl EXCEPT ![root_info_key] = avg.node],
                 raised |-> FALSE, trace |-> trained.trace,
                 action_utils |-> trained.action_utils,
                 strategy |-> avg.strategy]
  IN CHOOSE solved \in
       {read(trained) :
          trained \in {IF player.train_mode
                       THEN train_cfr_on_subtree(root, TrainIters, tbl)
                       ELSE NoPass(tbl)}} : TRUE

\* the value declare_action returns, None when the training raised
declare_action(solved, valid_actions, r, pick) ==
  IF solved.raised THEN None
  ELSE _map_strategy_to_action(valid_actions, solved.strategy, r, pick)

\* ------------------------------------------------------------------------
\* State
\* ------------------------------------------------------------------------
\* cfr_nodes     the global table of records
\* self          the TreeCFRPlayer: train_mode and uuid
\* root_node     the tree last built
\* iters         the number of cfr_tree passes and decisions made so far
\* op, args, ret the last call made, its arguments and its return value
\* raised        whether the last call ended in a KeyError
\* trace, action_utils  the updates and the root's action_utils of the last
\*               cfr_tree pass
\* created       for each key, the actions supplied when it was first used
\* early_raise   the root's average "raise" probability after EarlyIter passes
VARIABLES cfr_nodes, self, root_node, iters, op, args, ret, raised, trace,
          action_utils, created, early_raise

vars == <<cfr_nodes, self, root_node, iters, op, args, ret, raised, trace,
          action_utils, created, early_raise>>

EmptyTable == [k \in {} |-> 0]

TreeCFRPlayer(train_mode, uuid) == [train_mode |-> train_mode, uuid |-> uuid]

\* inputs of build_subtree
Seats == {0, 1}
Holes == { << <<"S", "A">>, <<"H", "K">> >>, << <<"H", "K">>, <<"S", "A">> >>,
           << <<"D", "2">>, <<"C", "7">> >> }
Boards == { <<>>, << <<"H", "3">>, <<"C", "9">>, <<"S", "J">> >> }
Pots == {30, 60}

AvgRaise(tbl, key) == get_average_strategy(tbl[key]).strategy["raise"]

\* the actions of the decision node of the tree that carries info_key
RECURSIVE NodeActions(_, _)
NodeActions(node, info_key) ==
  IF is_terminal(node) THEN {}
  ELSE (IF node.info_key = info_key THEN {Keys(node.children)} ELSE {})
       \cup UNION {NodeActions(node.children[i][2], info_key) :
                     i \in 1..Len(node.children)}

\* created after a walk of the tree root that left the table tbl
CreatedAfter(root, tbl) ==
  [k \in DOMAIN tbl |->
     IF k \in DOMAIN created THEN created[k]
     ELSE CHOOSE acts \in NodeActions(root, k) : TRUE]

Idle ==
  /\ iters = 0
  /\ op = "init"
  /\ ret = <<>>
  /\ raised = FALSE
  /\ trace = <<>>
  /\ action_utils = EmptyDict
  /\ early_raise = -1

\* ------------------------------------------------------------------------
\* SpecTrain: train_cfr_on_subtree on one tree, from an empty table
\* ------------------------------------------------------------------------
InitTrain ==
  /\ cfr_nodes = EmptyTable
  /\ created = EmptyTable
  /\ self = TreeCFRPlayer(TRUE, "None")
  /\ \E pv \in Seats, h \in Holes, b \in Boards, pot \in Pots :
       root_node = build_subtree(pv, h, b, pot)
  /\ args = <<>>
  /\ Idle

TrainIteration ==
  /\ iters < MaxIter
  /\ ~raised
  /\ \E res \in {TrainPass(root_node, cfr_nodes)} :
        /\ cfr_nodes' = res.tbl
        /\ created' = CreatedAfter(root_node, res.tbl)
        /\ trace' = res.trace
        /\ action_utils' = res.action_utils
        /\ raised' = res.raised
        /\ early_raise' = IF iters + 1 = EarlyIter /\ ~res.raised
                          THEN AvgRaise(res.tbl, root_node.info_key)
                          ELSE early_raise
  /\ iters' = iters + 1
  /\ op' = "cfr_tree"
  /\ UNCHANGED <<self, root_node, args, ret>>

NextTrain == TrainIteration

SpecTrain == InitTrain /\ [][NextTrain]_vars

\* ------------------------------------------------------------------------
\* SpecSampler: _map_strategy_to_action on every input
\* ------------------------------------------------------------------------
MaxLegal == 3

Fold0 == Entry("fold", Amount(0))
Call20 == Entry("call", Amount(20))
CallRange == Entry("call", MinMax(20, 60))
Check0 == Entry("check", Amount(0))
Raise40 == Entry("raise", MinMax(40, 200))
AllIn == Entry("allin", Amount(500))

Entries == {Fold0, Call20, CallRange, Check0, Raise40, AllIn}

\* the lists of at most n distinct entries
RECURSIVE Lists(_)
Lists(n) ==
  IF n = 0 THEN {<<>>}
  ELSE LET shorter == Lists(n - 1)
       IN shorter \cup {Append(l, e) : l \in shorter, e \in Entries}

LegalLists ==
  {l \in Lists(MaxLegal) : l # <<>> /\ Cardinality(Range(l)) = Len(l)}

\* a strategy with the given probabilities, in hundredths
Strategy(f, c, r) ==
  [a \in {"fold", "call", "raise"} |->
     Round((CASE a = "fold" -> f [] a = "call" -> c [] a = "raise" -> r) * Prec,
           100)]

Strategies ==
  {Strategy(10, 30, 60), Strategy(33, 34, 33), Strategy(100, 0, 0),
   Strategy(0, 100, 0), Strategy(0, 0, 100), Strategy(50, 50, 0),
   Strategy(0, 30, 70)}

\* values of random.random(): twentieths of [0, 1) and the last value below 1
Draws == {(k * Prec) \div 20 : k \in 0..19} \cup {Prec - 1}

InitSampler ==
  /\ cfr_nodes = EmptyTable
  /\ created = EmptyTable
  /\ self = TreeCFRPlayer(FALSE, "None")
  /\ root_node = None
  /\ Idle
  /\ \E l \in LegalLists, s \in Strategies, r \in Draws :
       args = [valid_actions |-> l, strategy |-> s, r |-> r]

MapStrategyToAction ==
  /\ op = "init"
  /\ \E pick \in 1..Len(args.valid_actions) :
       ret' = _map_strategy_to_action(args.valid_actions, args.strategy,
                                      args.r, pick)
  /\ op' = "_map_strategy_to_action"
  /\ iters' = iters + 1
  /\ UNCHANGED <<cfr_nodes, self, root_node, args, raised, trace, action_utils,
                 created, early_raise>>

NextSampler == MapStrategyToAction

SpecSampler == InitSampler /\ [][NextSampler]_vars

\* ------------------------------------------------------------------------
\* SpecRecord: get_strategy and get_average_strategy on one record with
\* arbitrary regret sums
\* ------------------------------------------------------------------------
MaxRegret == 2
MaxCalls == 2

RegretValues == {(k * Prec) \div 2 : k \in (-MaxRegret)..MaxRegret} \cup {-1, 1}

ActionLists == {<<"fold">>, <<"fold", "call">>, <<"fold", "call", "raise">>}

Weights == {0, Prec \div 2, Prec}

RecordKey == <<"record">>

InitRecord ==
  /\ \E l \in ActionLists :
       /\ \E regs \in [Range(l) -> RegretValues] :
            cfr_nodes = [k \in {RecordKey} |->
                           [CFRNode(RecordKey, l) EXCEPT !.regret_sums = regs]]
       /\ created = [k \in {RecordKey} |-> l]
  /\ self = TreeCFRPlayer(FALSE, "None")
  /\ root_node = None
  /\ args = <<>>
  /\ Idle

GetStrategy ==
  /\ iters < MaxCalls
  /\ \E w \in Weights :
       \E gs \in {get_strategy(cfr_nodes[RecordKey], w)} :
          /\ cfr_nodes' = [cfr_nodes EXCEPT ![RecordKey] = gs.node]
          /\ ret' = gs.strategy
          /\ args' = [realization_weight |-> w]
  /\ iters' = iters + 1
  /\ op' = "get_strategy"
  /\ UNCHANGED <<self, root_node, raised, trace, action_utils, created,
                 early_raise>>

GetAverageStrategy ==
  /\ op # "get_average_strategy"
  /\ \E avg \in {get_average_strategy(cfr_nodes[RecordKey])} :
       /\ ret' = avg.strategy
       /\ cfr_nodes' = [cfr_nodes EXCEPT ![RecordKey] = avg.node]
  /\ args' = [info_key |-> RecordKey]
  /\ op' = "get_average_strategy"
  /\ UNCHANGED <<self, root_node, iters, raised, trace, action_utils, created,
                 early_raise>>

NextRecord == GetStrategy \/ GetAverageStrategy

SpecRecord == InitRecord /\ [][NextRecord]_vars

\* ------------------------------------------------------------------------
\* SpecTable: get_or_create_cfr_node and cfr_tree called with any key and
\* any action list
\* ------------------------------------------------------------------------
MaxOps == 3

TableHole == << <<"S", "A">>, <<"H", "K">> >>

TableKeys == {RootKey(TableHole, <<>>, 30), OppKey(30)}

TableActionLists ==
  {<<"fold", "call", "raise">>, <<"fold", "call">>,
   <<"fold_opp", "call_opp", "raise_opp">>, <<"raise_opp", "all_in">>,
   <<"fold", "call", "raise", "all_in">>}

InitTable ==
  /\ cfr_nodes = EmptyTable
  /\ created = EmptyTable
  /\ self = TreeCFRPlayer(FALSE, "None")
  /\ root_node = None
  /\ args = <<>>
  /\ Idle

GetOrCreate ==
  /\ iters < MaxOps
  /\ \E info_key \in TableKeys, actions \in TableActionLists :
       /\ cfr_nodes' = get_or_create_cfr_node(cfr_nodes, info_key, actions)
       /\ ret' = cfr_nodes'[info_key]
       /\ args' = [info_key |-> info_key, actions |-> actions]
       /\ created' = IF info_key \in DOMAIN created THEN created
                     ELSE [k \in (DOMAIN created) \cup {info_key} |->
                             IF k = info_key THEN actions ELSE created[k]]
  /\ iters' = iters + 1
  /\ op' = "get_or_create_cfr_node"
  /\ raised' = FALSE
  /\ UNCHANGED <<self, root_node, trace, action_utils, early_raise>>

Evaluate ==
  /\ iters < MaxOps
  /\ \E pv \in Seats :
       \E root \in {build_subtree(pv, TableHole, <<>>, 30)} :
       \E res \in {TrainPass(root, cfr_nodes)} :
          /\ root_node' = root
          /\ cfr_nodes' = res.tbl
          /\ created' = CreatedAfter(root, res.tbl)
          /\ trace' = res.trace
          /\ action_utils' = res.action_utils
          /\ raised' = res.raised
          /\ ret' = res.util
          /\ args' = [player_view |-> pv]
  /\ iters' = iters + 1
  /\ op' = "cfr_tree"
  /\ UNCHANGED <<self, early_raise>>

NextTable == GetOrCreate \/ Evaluate

SpecTable == InitTable /\ [][NextTable]_vars

\* ------------------------------------------------------------------------
\* Spec: a player answering decision requests, with training passes and
\* reads of the average strategy in between
\* ------------------------------------------------------------------------
MaxSteps == 2
MaxReads == 2

PlayHoles == { << <<"S", "A">>, <<"H", "K">> >> }

SeatLists == { <<"bot", "rand">>, <<"rand", "bot">> }

Uuids == {"None", "bot"}

EngineLists ==
  { <<Fold0, Call20, Raise40>>, <<Fold0, Call20>>, <<Fold0, CallRange, Raise40>> }

PlayDraws == {0, Prec \div 2, Prec - 1}

RoundState(seats) == [pot |-> 30, community_card |-> <<>>, seats |-> seats]

Init ==
  /\ cfr_nodes = EmptyTable
  /\ created = EmptyTable
  /\ \E tm \in BOOLEAN, uuid \in Uuids : self = TreeCFRPlayer(tm, uuid)
  /\ root_node = None
  /\ args = <<>>
  /\ Idle

TrainOnSubtree ==
  /\ iters < MaxSteps
  /\ \E pv \in Seats, h \in PlayHoles :
       \E root \in {build_subtree(pv, h, <<>>, 30)} :
       \E res \in {TrainPass(root, cfr_nodes)} :
          /\ root_node' = root
          /\ cfr_nodes' = res.tbl
          /\ created' = CreatedAfter(root, res.tbl)
          /\ trace' = res.trace
          /\ action_utils' = res.action_utils
          /\ raised' = res.raised
          /\ ret' = res.util
          /\ args' = [player_view |-> pv, hole_cards |-> h]
  /\ iters' = iters + 1
  /\ op' = "cfr_tree"
  /\ UNCHANGED <<self, early_raise>>

\* args.nth counts the reads of the same key made in a row
AverageStrategy ==
  /\ \E info_key \in DOMAIN cfr_nodes :
       /\ \E avg \in {get_average_strategy(cfr_nodes[info_key])} :
            /\ ret' = avg.strategy
            /\ cfr_nodes' = [cfr_nodes EXCEPT ![info_key] = avg.node]
       /\ IF op = "get_average_strategy" /\ args.info_key = info_key
          THEN /\ args.nth < MaxReads
               /\ args' = [info_key |-> info_key, nth |-> args.nth + 1]
          ELSE args' = [info_key |-> info_key, nth |-> 1]
  /\ op' = "get_average_strategy"
  /\ UNCHANGED <<self, root_node, iters, raised, trace, action_utils, created,
                 early_raise>>

DeclareAction ==
  /\ iters < MaxSteps
  /\ \E h \in PlayHoles, seats \in SeatLists :
       \E solved \in {Solve(self, cfr_nodes, h, RoundState(seats))} :
          /\ root_node' = solved.root
          /\ cfr_nodes' = solved.tbl
          /\ created' = CreatedAfter(solved.root, solved.tbl)
          /\ trace' = solved.trace
          /\ action_utils' = solved.action_utils
          /\ raised' = solved.raised
          /\ \E valid_actions \in EngineLists, r \in PlayDraws :
               \E pick \in 1..Len(valid_actions) :
                  /\ ret' = declare_action(solved, valid_actions, r, pick)
                  /\ args' = [valid_actions |-> valid_actions,
                              hole_cards |-> h, seats |-> seats, r |-> r]
  /\ iters' = iters + 1
  /\ op' = "declare_action"
  /\ UNCHANGED <<self, early_raise>>

Next == TrainOnSubtree \/ AverageStrategy \/ DeclareAction

Spec == Init /\ [][Next]_vars

\* ------------------------------------------------------------------------
\* Properties of training (SpecTrain)
\* ------------------------------------------------------------------------
Abs(x) == IF x < 0 THEN -x ELSE x

Total(tbl, key) == SumValues(tbl[key].strategy_sums)

\* the node both "call" and "raise" of the root lead to
SharedNode == Child(root_node.children, "call")

OppEvents == SelectSeq(trace, LAMBDA e : e.key = SharedNode.info_key)

\* rounding of the quotients of one regret-matching over n actions moves
\* their sum by less than n/2 grid steps
Slack(n) == n \div 2

\* C1: in every pass over the tree of build_subtree the record of the
\* shared opponent node gets exactly two compute_strategy updates and two
\* regret updates, one per incoming edge, "call" first and "raise" second,
\* each with weight reach[opponent] = 1; so its strategy_sum totals 2N
\* after N passes from an empty table while the root's totals N (up to the
\* rounding of the N or 2N strategies added).
C1_SharedNodeUpdatedTwice ==
  op = "cfr_tree" =>
    /\ Child(root_node.children, "raise") = SharedNode
    /\ Len(OppEvents) = 4
    /\ [i \in 1..4 |-> OppEvents[i].op] =
         <<"get_strategy", "regret", "get_strategy", "regret">>
    /\ [i \in 1..4 |-> OppEvents[i].path] =
         << <<"call">>, <<"call">>, <<"raise">>, <<"raise">> >>
    /\ \A i \in 1..4 : OppEvents[i].w = Num(1)
    /\ Abs(Total(cfr_nodes, SharedNode.info_key) - 2 * iters * Num(1))
         <= 2 * iters * Slack(3)
    /\ Abs(Total(cfr_nodes, root_node.info_key) - iters * Num(1))
         <= iters * Slack(3)

C1_Witness ==
  /\ op = "cfr_tree"
  /\ iters = 3
  /\ Total(cfr_nodes, SharedNode.info_key) > 5 * Num(1)
  /\ Total(cfr_nodes, root_node.info_key) < 4 * Num(1)

\* C2 as stated: the root's average-strategy probability of "raise" after
\* LateIter passes is strictly greater than after EarlyIter passes.
C2_RaiseIncreases ==
  iters = LateIter => AvgRaise(cfr_nodes, root_node.info_key) > early_raise

\* C2 amended: the root's average-strategy probability of "raise" after
\* LateIter passes is strictly smaller than after EarlyIter passes.
C2_RaiseDecreases ==
  iters = LateIter =>
    /\ early_raise > 0
    /\ AvgRaise(cfr_nodes, root_node.info_key) < early_raise

C2_Witness == iters = LateIter /\ early_raise > 0

PositiveSum(regs) == SumValues([a \in DOMAIN regs |-> Max(0, regs[a])])

\* s is the regret-matching of regs, up to the rounding of the quotient
Matches(s, regs) ==
  LET sum == PositiveSum(regs)
  IN /\ sum > 0
     /\ \A a \in DOMAIN s :
          Abs(2 * (s[a] * sum - Max(0, regs[a]) * Prec)) <= sum

\* the largest change rounding the three probabilities of a strategy can
\* make to the value of the opponent node: half a grid step per payoff unit
PayoffSlack == (25 + 5 + 15) \div 2 + 1

\* C10: in a pass the visit of the shared node through "call" finishes its
\* regret update before the visit through "raise" computes its strategy,
\* and that strategy is the regret-matching of the regrets the first visit
\* left; from an empty table the first pass therefore values "call" at +5
\* and "raise" at -15 for the acting player.
C10_VisitsSequential ==
  op = "cfr_tree" =>
    /\ Len(OppEvents) = 4
    /\ OppEvents[2].op = "regret" /\ OppEvents[2].path = <<"call">>
    /\ OppEvents[3].op = "get_strategy" /\ OppEvents[3].path = <<"raise">>
    /\ OppEvents[3].regret_sums = OppEvents[2].regret_sums
    /\ Matches(OppEvents[3].strategy, OppEvents[2].regret_sums)
    /\ iters = 1 =>
         /\ OppEvents[1].strategy # OppEvents[3].strategy
         /\ Abs(action_utils["call"][root_node.current_player + 1] - Num(5))
              <= PayoffSlack
         /\ action_utils["raise"][root_node.current_player + 1] = Num(-15)

C10_Witness ==
  /\ op = "cfr_tree"
  /\ iters = 1
  /\ action_utils["call"] # action_utils["raise"]

\* ------------------------------------------------------------------------
\* Properties of the sampler (SpecSampler)
\* ------------------------------------------------------------------------
Recognized(act_type) == act_type \in {"fold", "call", "check", "raise"}

\* the category an entry is played as
Category(act_type) ==
  IF act_type \in {"call", "check"} THEN "call"
  ELSE IF act_type = "raise" THEN "raise"
  ELSE "fold"

\* the mass of the i-th legal entry before renormalization: the average-
\* strategy probability of its category, nothing for an unrecognized entry
Mass(i) ==
  LET act_type == args.valid_actions[i].action
  IN IF Recognized(act_type) THEN DictGet(args.strategy, Category(act_type))
     ELSE 0

RECURSIVE CumMass(_)
CumMass(i) == IF i = 0 THEN 0 ELSE CumMass(i - 1) + Mass(i)

MassSum == CumMass(Len(args.valid_actions))

\* r lies in the interval of the i-th entry, [CumMass(i-1), CumMass(i)) /
\* MassSum, and further from its ends than the rounding of the renormalized
\* probabilities can move them
InInterval(i) ==
  LET n == Len(args.valid_actions)
  IN /\ \/ CumMass(i - 1) = 0
        \/ (args.r - n) * MassSum >= CumMass(i - 1) * Prec
     /\ (args.r + n) * MassSum < CumMass(i) * Prec

Sampled == op = "_map_strategy_to_action"

\* C4 as stated: for legal entries with categories fold, call, check and
\* raise and selected mass of at least epsilon, the entry returned is the
\* one whose interval of renormalized mass holds r, where a "check" entry,
\* like a "call" entry, has the "call" probability as its mass.
C4_WalkSelectsByMass ==
  (/\ Sampled
   /\ \A i \in 1..Len(args.valid_actions) :
        Recognized(args.valid_actions[i].action)
   /\ ~LtEpsilon(MassSum))
  => \A i \in 1..Len(args.valid_actions) :
       InInterval(i) => ret.va = args.valid_actions[i]

\* C6: the category returned is the category of an entry of the legal list
\* on the weighted walk, the uniform fallback and the residual-mass path;
\* with the legal list restricted to fold and call it is never "raise".
C6_NeverIllegalCategory ==
  Sampled =>
    /\ ret.action[1] \in
         {Category(args.valid_actions[i].action) : i \in 1..Len(args.valid_actions)}
    /\ (\A i \in 1..Len(args.valid_actions) :
          args.valid_actions[i].action \in {"fold", "call"})
       => ret.action[1] # "raise"

C6_Witness ==
  /\ Sampled
  /\ {args.valid_actions[i].action : i \in 1..Len(args.valid_actions)}
       = {"fold", "call"}
  /\ args.strategy["raise"] = Num(1)
  /\ ret.path = "fallback"
  /\ ret.action[1] = "call"

\* C7 as stated: an entry whose category is none of fold, call, check and
\* raise has no mass: when the recognized entries carry at least epsilon,
\* the walk never selects it, and the recognized entries are selected for
\* exactly their intervals of renormalized mass.  (Stated for lists without
\* "check" entries.)
C7_UnrecognizedSkipped ==
  (/\ Sampled
   /\ \E i \in 1..Len(args.valid_actions) :
        ~Recognized(args.valid_actions[i].action)
   /\ \A i \in 1..Len(args.valid_actions) :
        args.valid_actions[i].action # "check"
   /\ ~LtEpsilon(MassSum))
  => /\ ret.path = "walk" => Recognized(ret.va.action)
     /\ \A i \in 1..Len(args.valid_actions) :
          InInterval(i) => ret.va = args.valid_actions[i]

\* ------------------------------------------------------------------------
\* Properties of a record (SpecRecord)
\* ------------------------------------------------------------------------
Record == cfr_nodes[RecordKey]

\* nonnegative probabilities over the record's actions that sum to 1, up to
\* the rounding of the quotients
IsDistribution(s) ==
  /\ DOMAIN s = Range(Record.actions)
  /\ \A a \in DOMAIN s : s[a] >= 0
  /\ Abs(SumValues(s) - Num(1)) <= Slack(Len(Record.actions))

\* s[a] = 1 / n for each of the n actions, rounded
IsUniform(s) ==
  \A a \in DOMAIN s :
    Abs(2 * (s[a] * Len(Record.actions) - Num(1))) <= Len(Record.actions)

\* s[a] = sums[a] / total, rounded
IsQuotient(s, sums, total) ==
  \A a \in DOMAIN s : Abs(2 * (s[a] * total - DictGet(sums, a) * Prec)) <= total

\* C3: compute_strategy returns nonnegative probabilities summing to 1,
\* max(0, regret_sum[a]) / sum when the sum of the positive regrets exceeds
\* epsilon and uniform otherwise; average_strategy returns nonnegative
\* probabilities summing to 1, strategy_sum[a] / total, or uniform when the
\* total is below epsilon.  (Every positive grid value exceeds epsilon.)
C3_StrategiesAreDistributions ==
  /\ op = "get_strategy" =>
       /\ IsDistribution(ret)
       /\ IF PositiveSum(Record.regret_sums) > 0
          THEN IsQuotient(ret, [a \in DOMAIN ret |-> Max(0, Record.regret_sums[a])],
                          PositiveSum(Record.regret_sums))
          ELSE IsUniform(ret)
  /\ op = "get_average_strategy" =>
       /\ IsDistribution(ret)
       /\ IF SumValues(Record.strategy_sums) > 0
          THEN IsQuotient(ret, Record.strategy_sums,
                          SumValues(Record.strategy_sums))
          ELSE IsUniform(ret)

C3_Witness ==
  /\ op = "get_strategy"
  /\ Len(Record.actions) = 3
  /\ Record.regret_sums["fold"] < 0
  /\ Record.regret_sums["call"] > 0
  /\ Record.regret_sums["raise"] > Record.regret_sums["call"]
  /\ ret["fold"] = 0
  /\ ret["raise"] > ret["call"]

\* ------------------------------------------------------------------------
\* Properties of the table (SpecTable)
\* ------------------------------------------------------------------------
\* each key maps to the record of its first use: its actions are those
\* supplied then, and the keys of its sums are among them
C8_RecordsKeepFirstActions ==
  /\ DOMAIN cfr_nodes = DOMAIN created
  /\ \A k \in DOMAIN cfr_nodes :
       /\ cfr_nodes[k].info_key = k
       /\ cfr_nodes[k].actions = created[k]
       /\ DOMAIN cfr_nodes[k].regret_sums \subseteq Range(created[k])
       /\ DOMAIN cfr_nodes[k].strategy_sums \subseteq Range(created[k])

\* no call removes a record, and get_or_create_cfr_node returns the record
\* of the key, for a key already present without changing it or the table
\* and without raising
C8_GetOrCreateKeepsRecords ==
  /\ \A k \in DOMAIN cfr_nodes : k \in DOMAIN cfr_nodes'
  /\ op' = "get_or_create_cfr_node" =>
       /\ ~raised'
       /\ ret' = cfr_nodes'[args'.info_key]
       /\ \A k \in DOMAIN cfr_nodes : cfr_nodes'[k] = cfr_nodes[k]
       /\ args'.info_key \in DOMAIN cfr_nodes => cfr_nodes' = cfr_nodes

\* C8: after any sequence of get_or_create and evaluate calls each key maps
\* to the record created at its first use; a later get_or_create with the
\* same key returns it without resetting its sums, its action set stays the
\* one given first even when another is supplied, without failure, the keys
\* of its sums are among that first action set, and no record is removed.
C8_OneRecordPerKey ==
  /\ []C8_RecordsKeepFirstActions
  /\ [][C8_GetOrCreateKeepsRecords]_vars

C8_Witness ==
  /\ op = "get_or_create_cfr_node"
  /\ args.actions # ret.actions
  /\ Range(args.actions) \cap Range(ret.actions) = {}
  /\ SumValues(ret.strategy_sums) > 0

\* ------------------------------------------------------------------------
\* Properties of a player (Spec)
\* ------------------------------------------------------------------------
\* C5: every decision request returns one (category, amount) pair with
\* category fold, call or raise and a nonnegative integer amount set by the
\* legal entry chosen: 0 for fold; for call or check the entry's amount, 0
\* when that is a {min, max} range; for raise the minimum of the range,
\* not its maximum or a value inside it.
C5_OnePairPerRequest ==
  op = "declare_action" =>
    /\ ~raised
    /\ DOMAIN ret.action = 1..2
    /\ ret.action[1] \in {"fold", "call", "raise"}
    /\ ret.action[2] \in Nat
    /\ \E i \in 1..Len(args.valid_actions) : ret.va = args.valid_actions[i]
    /\ ret.va.action = "fold" => ret.action = <<"fold", 0>>
    /\ ret.va.action \in {"call", "check"} =>
         ret.action = <<"call", IF "value" \in DOMAIN ret.va.amount
                                THEN ret.va.amount.value ELSE 0>>
    /\ ret.va.action = "raise" =>
         /\ ret.action = <<"raise", ret.va.amount.min>>
         /\ ret.va.amount.min < ret.va.amount.max =>
              ret.action[2] < ret.va.amount.max

C5_Witness ==
  /\ op = "declare_action"
  /\ self.train_mode
  /\ ret.va = Raise40
  /\ ret.action = <<"raise", 40>>

StrategySum(tbl, k, a) ==
  IF k \in DOMAIN tbl THEN DictGet(tbl[k].strategy_sums, a) ELSE 0

\* the strategy mass the get_strategy updates of the trace add to a of k
RECURSIVE Added(_, _, _, _)
Added(tr, k, a, i) ==
  IF i > Len(tr) THEN 0
  ELSE (IF tr[i].op = "get_strategy" /\ tr[i].key = k
        THEN Mul(tr[i].strategy[a], tr[i].w) ELSE 0)
       + Added(tr, k, a, i + 1)

C9_Nonnegative ==
  /\ \A k \in DOMAIN cfr_nodes :
       \A a \in DOMAIN cfr_nodes[k].strategy_sums :
         cfr_nodes[k].strategy_sums[a] >= 0
  /\ \A i \in 1..Len(trace) : trace[i].w >= 0 /\ trace[i].w <= Num(1)

C9_Step ==
  /\ \A k \in DOMAIN cfr_nodes :
       /\ k \in DOMAIN cfr_nodes'
       /\ \A a \in DOMAIN cfr_nodes[k].strategy_sums :
            StrategySum(cfr_nodes', k, a) >= StrategySum(cfr_nodes, k, a)
  /\ op' = "cfr_tree" =>
       \A k \in DOMAIN cfr_nodes' :
         \A a \in Range(cfr_nodes'[k].actions) :
           StrategySum(cfr_nodes', k, a) - StrategySum(cfr_nodes, k, a)
             = Added(trace', k, a, 1)
  /\ op' = "get_average_strategy" =>
       /\ cfr_nodes' = cfr_nodes
       /\ (op = "get_average_strategy" /\ args'.nth > 1) => ret' = ret
  /\ (op' = "declare_action" /\ ~self.train_mode) => cfr_nodes' = cfr_nodes

\* C9: every strategy_sum[a] is nonnegative and never decreases over any
\* sequence of training passes and decision requests; a pass changes it by
\* the sum of strategy[a] x reach[acting player] of its compute_strategy
\* updates, every reach in [0, 1]; average_strategy and the sampling of an
\* action leave the records unchanged, and two average_strategy calls with
\* no training in between return the same result.
C9_StrategySumMonotone ==
  /\ []C9_Nonnegative
  /\ [][C9_Step]_vars

C9_Witness ==
  /\ op = "get_average_strategy"
  /\ args.nth = 2
  /\ iters = 2
  /\ SumValues(cfr_nodes[args.info_key].strategy_sums) > Num(1)

====
